---- MODULE Spec2Model ----
(***************************************************************************)
(* A model of solve2048: the 2048 rules engine (rules.py), the generic     *)
(* game contract (game.py), the expectimax and minimax value functions    *)
(* (search.py) and the memoizing cache (cache.py).                         *)
(*                                                                         *)
(* Encodings.  Python's None in a board cell is the number 0 (no tile is   *)
(* ever 0: Insert writes 2 and a merge doubles).  Ellipsis is -1.  A       *)
(* position is the pair <<i, j>>, 0-based as in the source.  An action is  *)
(* the keyword dictionary of the source: [player |-> -1, position |-> p]   *)
(* or [player |-> 1, direction |-> d].                                     *)
(***************************************************************************)
EXTENDS Integers, Sequences, FiniteSets, TLC

VARIABLES config, game, last, plies, limit, search, caches, call

vars == <<config, game, last, plies, limit, search, caches, call>>

\* ------------------------------------------------------------------------
\* Bounds of the model
\* ------------------------------------------------------------------------

\* Boards of play have at most this many cells.
MaxCells == 4

\* The terminal score is 2^k for some 2 <= k <= MaxTerminalExp.
MaxTerminalExp == 3

\* A play is initialize followed by at most MaxPlies - 1 successful invokes.
MaxPlies == 7

\* A crafted board holds tiles 2^k with 1 <= k <= MaxTileExp.
MaxTileExp == 2

\* The value functions are called with a depth of 0..MaxDepth (and with the
\* unlimited depth -1, see Depths).
MaxDepth == 3

\* A searched play is initialize followed by at most MaxSearchPlies - 1 invokes.
MaxSearchPlies == 4

\* The greatest --cache-size: CACHE_MAXSIZE is 2 ** cache_size.
MaxCacheExp == 2

\* The number of calls a process makes to memoized functions.
MaxCalls == 5

\* The greatest number of cells of the boards whose functions are memoized.
MaxCacheCells == 2

\* The number of tiles on the board the value functions are first called on.
MaxMemoTiles == 3

\* The number of calls to a memoized value function and their greatest depth.
MaxMemoCalls == 2

MaxMemoDepth == 1

\* The number of calls of a process that resets the statistics with filters.
MaxStatsCalls == 3

\* A play with memoized decisions is initialize followed by at most
\* MaxPruningPlies - 1 invokes; the decisions are asked with a depth of
\* 0..MaxPruningDepth.
MaxPruningPlies == 3

MaxPruningDepth == 2

\* ------------------------------------------------------------------------
\* Python values
\* ------------------------------------------------------------------------

None == 0

Ellipsis == 0 - 1

MIN == 0 - 1

MAX == 1

\* enum Direction, in definition order (iteration order of `for d in Direction`).
Direction == <<"UP", "RIGHT", "DOWN", "LEFT">>

Directions == {Direction[k] : k \in 1..Len(Direction)}

RECURSIVE Pow2(_)
Pow2(k) == IF k = 0 THEN 1 ELSE 2 * Pow2(k - 1)

Reversed(s) == [k \in 1..Len(s) |-> s[Len(s) + 1 - k]]

SeqRange(s) == {s[k] : k \in 1..Len(s)}

\* d[k] = v on a Python dict: the key is added when it is not there yet.
DictSet(d, k, v) == [x \in (DOMAIN d) \cup {k} |-> IF x = k THEN v ELSE d[x]]

Max2(a, b) == IF a >= b THEN a ELSE b

Abs(a) == IF a < 0 THEN 0 - a ELSE a

\* ------------------------------------------------------------------------
\* rules.py: board iterators
\* ------------------------------------------------------------------------

\* _rotate_board that never reverses r2: every lane starts at row 0 or column 0.
_rotate_board_forward(size, direction) ==
    LET height == size[1]
        width == size[2]
        r1a == [x \in 1..height |-> <<x - 1, 0>>]
        r2a == [x \in 1..width |-> <<0, x - 1>>]
        r1 == IF direction \in {"UP", "DOWN"} THEN r2a ELSE r1a
        r2 == IF direction \in {"UP", "DOWN"} THEN r1a ELSE r2a
    IN [k \in 1..Len(r1) |->
          [l \in 1..Len(r2) |-> <<r1[k][1] + r2[l][1], r1[k][2] + r2[l][2]>>]]

\* Game2048._rotate_board: the lanes, each from the edge the tiles move to.
_rotate_board(size, direction) ==
    LET height == size[1]
        width == size[2]
        r1a == [x \in 1..height |-> <<x - 1, 0>>]
        r2a == [x \in 1..width |-> <<0, x - 1>>]
        r1 == IF direction \in {"UP", "DOWN"} THEN r2a ELSE r1a
        r2b == IF direction \in {"UP", "DOWN"} THEN r1a ELSE r2a
        r2 == IF direction \in {"RIGHT", "DOWN"} THEN Reversed(r2b) ELSE r2b
    IN [k \in 1..Len(r1) |->
          [l \in 1..Len(r2) |-> <<r1[k][1] + r2[l][1], r1[k][2] + r2[l][2]>>]]

\* Game2048._board_as_snake: r2 is reversed after every pass of the outer loop.
_board_as_snake(size, direction) ==
    LET height == size[1]
        width == size[2]
        r1a == [x \in 1..height |-> <<x - 1, 0>>]
        r2a == [x \in 1..width |-> <<0, x - 1>>]
        r1 == IF direction \in {"UP", "DOWN"} THEN r2a ELSE r1a
        r2b == IF direction \in {"UP", "DOWN"} THEN r1a ELSE r2a
        r2 == IF direction \in {"LEFT", "UP"} THEN Reversed(r2b) ELSE r2b
        n == Len(r2)
        cell(k, l) == LET r == IF k % 2 = 1 THEN r2 ELSE Reversed(r2)
                      IN <<r1[k][1] + r[l][1], r1[k][2] + r[l][2]>>
    IN [m \in 1..(Len(r1) * n) |-> cell(((m - 1) \div n) + 1, ((m - 1) % n) + 1)]

\* ------------------------------------------------------------------------
\* rules.py: legality
\* ------------------------------------------------------------------------

\* Game2048.all_actions: the insertions in row-major order, then the slides.
all_actions(self) ==
    LET height == self.size[1]
        width == self.size[2]
        new_tiles == [m \in 1..(height * width) |->
                        [player |-> MIN,
                         position |-> <<(m - 1) \div width, (m - 1) % width>>]]
        directions == [k \in 1..Len(Direction) |->
                         [player |-> MAX, direction |-> Direction[k]]]
    IN new_tiles \o directions

\* _can_invoke_min that checks the player only.
_can_invoke_min_player(self, kwargs) ==
    IF kwargs.player # MIN THEN FALSE
    ELSE TRUE

_can_invoke_min(self, kwargs) ==
    IF kwargs.player # MIN THEN FALSE
    ELSE self.state[kwargs.position] = None

\* The loop of _can_invoke_max without the comparison with the previous tile.
RECURSIVE can_invoke_max_row_gaps(_, _, _, _, _)
can_invoke_max_row_gaps(state, row, k, previous, previous_non_empty) ==
    IF k > Len(row) THEN FALSE
    ELSE LET current == state[row[k]] IN
         IF current # None
         THEN IF previous = None THEN TRUE
              ELSE can_invoke_max_row_gaps(state, row, k + 1, current, current)
         ELSE can_invoke_max_row_gaps(state, row, k + 1, current, previous_non_empty)

\* The inner loop of _can_invoke_max over one lane, from its k-th position.
RECURSIVE can_invoke_max_row(_, _, _, _, _)
can_invoke_max_row(state, row, k, previous, previous_non_empty) ==
    IF k > Len(row) THEN FALSE
    ELSE LET current == state[row[k]] IN
         IF current # None
         THEN IF previous = None THEN TRUE
              ELSE IF current = previous_non_empty THEN TRUE
              ELSE can_invoke_max_row(state, row, k + 1, current, current)
         ELSE can_invoke_max_row(state, row, k + 1, current, previous_non_empty)

\* _can_invoke_max that allows every slide.
_can_invoke_max_always(self, kwargs) ==
    IF kwargs.player # MAX THEN FALSE
    ELSE TRUE

_can_invoke_max(self, kwargs) ==
    IF kwargs.player # MAX THEN FALSE
    ELSE LET rows == _rotate_board(self.size, kwargs.direction)
         IN \E r \in 1..Len(rows) :
               can_invoke_max_row(self.state, rows[r], 1, Ellipsis, Ellipsis)

can_invoke(self, kwargs) ==
    IF self.player = MIN THEN _can_invoke_min(self, kwargs)
    ELSE _can_invoke_max(self, kwargs)

\* Game.actions with a loop that stops before the last element of all_actions().
RECURSIVE actions_from_short(_, _, _, _)
actions_from_short(self, all, k, rv) ==
    IF k >= Len(all) THEN rv
    ELSE actions_from_short(self, all, k + 1,
                            IF can_invoke(self, all[k]) THEN Append(rv, all[k]) ELSE rv)

\* Game.actions (game.py): the loop over all_actions(), from its k-th element.
RECURSIVE actions_from(_, _, _, _)
actions_from(self, all, k, rv) ==
    IF k > Len(all) THEN rv
    ELSE actions_from(self, all, k + 1,
                      IF can_invoke(self, all[k]) THEN Append(rv, all[k]) ELSE rv)

actions(self) == actions_from(self, all_actions(self), 1, <<>>)

\* ------------------------------------------------------------------------
\* rules.py: transitions
\* ------------------------------------------------------------------------

\* _eliminate_empty_tiles reading empty[0] without popping it: every later tile
\* of the lane lands on the same cell.
RECURSIVE eliminate_row_peek(_, _, _, _)
eliminate_row_peek(state, row, k, empty) ==
    IF k > Len(row) THEN state
    ELSE LET pos == row[k]
             current == state[pos]
         IN IF current = None
            THEN eliminate_row_peek(state, row, k + 1, Append(empty, pos))
            ELSE IF empty # <<>>
            THEN eliminate_row_peek(DictSet(DictSet(state, Head(empty), current), pos, None),
                                    row, k + 1, Append(empty, pos))
            ELSE eliminate_row_peek(state, row, k + 1, empty)

\* The inner loop of _eliminate_empty_tiles over one lane; empty is the queue
\* of visited empty positions.
RECURSIVE eliminate_row(_, _, _, _)
eliminate_row(state, row, k, empty) ==
    IF k > Len(row) THEN state
    ELSE LET pos == row[k]
             current == state[pos]
         IN IF current = None
            THEN eliminate_row(state, row, k + 1, Append(empty, pos))
            ELSE IF empty # <<>>
            THEN eliminate_row(DictSet(DictSet(state, Head(empty), current), pos, None),
                               row, k + 1, Append(Tail(empty), pos))
            ELSE eliminate_row(state, row, k + 1, empty)

RECURSIVE eliminate_rows(_, _, _)
eliminate_rows(state, rows, r) ==
    IF r > Len(rows) THEN state
    ELSE eliminate_rows(eliminate_row(state, rows[r], 1, <<>>), rows, r + 1)

_eliminate_empty_tiles(self, state, direction) ==
    eliminate_rows(state, _rotate_board(self.size, direction), 1)

\* _squash_equal_tiles whose merged tile keeps the value of one of the two.
RECURSIVE squash_row_undoubled(_, _, _, _, _)
squash_row_undoubled(state, row, k, previous, prev_pos) ==
    IF k > Len(row) THEN state
    ELSE LET pos == row[k]
             current == state[pos]
         IN IF current # None /\ current = previous
            THEN squash_row_undoubled(DictSet(DictSet(state, prev_pos, previous), pos, None),
                                      row, k + 1, None, pos)
            ELSE squash_row_undoubled(state, row, k + 1, current, pos)

\* _squash_equal_tiles that leaves the second tile of a merged pair in place.
RECURSIVE squash_row_kept(_, _, _, _, _)
squash_row_kept(state, row, k, previous, prev_pos) ==
    IF k > Len(row) THEN state
    ELSE LET pos == row[k]
             current == state[pos]
         IN IF current # None /\ current = previous
            THEN squash_row_kept(DictSet(state, prev_pos, previous * 2),
                                 row, k + 1, None, pos)
            ELSE squash_row_kept(state, row, k + 1, current, pos)

\* _squash_equal_tiles that keeps the merged tile as the previous one, so that
\* it can merge again with the next tile.
RECURSIVE squash_row_again(_, _, _, _, _)
squash_row_again(state, row, k, previous, prev_pos) ==
    IF k > Len(row) THEN state
    ELSE LET pos == row[k]
             current == state[pos]
         IN IF current # None /\ current = previous
            THEN squash_row_again(DictSet(DictSet(state, prev_pos, previous * 2), pos, None),
                                  row, k + 1, previous * 2, prev_pos)
            ELSE squash_row_again(state, row, k + 1,
                                  IF current = None THEN previous ELSE current,
                                  IF current = None THEN prev_pos ELSE pos)

\* The inner loop of _squash_equal_tiles over one lane; prev_pos is only read
\* when previous is a tile, so its initial None is never used.
RECURSIVE squash_row(_, _, _, _, _)
squash_row(state, row, k, previous, prev_pos) ==
    IF k > Len(row) THEN state
    ELSE LET pos == row[k]
             current == state[pos]
         IN IF current # None /\ current = previous
            THEN squash_row(DictSet(DictSet(state, prev_pos, previous * 2), pos, None),
                            row, k + 1, None, pos)
            ELSE squash_row(state, row, k + 1, current, pos)

RECURSIVE squash_rows(_, _, _)
squash_rows(state, rows, r) ==
    IF r > Len(rows) THEN state
    ELSE squash_rows(squash_row(state, rows[r], 1, None, <<>>), rows, r + 1)

_squash_equal_tiles(self, state, direction) ==
    squash_rows(state, _rotate_board(self.size, direction), 1)

\* _invoke_min that writes the tile 1.
_invoke_min_one(self, kwargs) ==
    IF ~can_invoke(self, kwargs)
    THEN [raised |-> TRUE, self_state |-> self.state, state |-> self.state]
    ELSE [raised |-> FALSE, self_state |-> self.state,
          state |-> DictSet(self.state, kwargs.position, 1)]

\* _invoke_min and _invoke_max answer with the board they built (state), with
\* whether they raised ValueError, and with the receiver's own board after the
\* call (self_state): both work on the copy {**self.state}.
_invoke_min(self, kwargs) ==
    IF ~can_invoke(self, kwargs)
    THEN [raised |-> TRUE, self_state |-> self.state, state |-> self.state]
    ELSE [raised |-> FALSE, self_state |-> self.state,
          state |-> DictSet(self.state, kwargs.position, 2)]

\* _invoke_max without its can_invoke guard.
_invoke_max_unguarded(self, kwargs) ==
    LET s1 == _eliminate_empty_tiles(self, self.state, kwargs.direction)
        s2 == _squash_equal_tiles(self, s1, kwargs.direction)
        s3 == _eliminate_empty_tiles(self, s2, kwargs.direction)
    IN [raised |-> FALSE, self_state |-> self.state, state |-> s3]

\* _invoke_max with state = self.state instead of a copy: the three passes
\* write into the receiver's own board.
_invoke_max_aliased(self, kwargs) ==
    IF ~can_invoke(self, kwargs)
    THEN [raised |-> TRUE, self_state |-> self.state, state |-> self.state]
    ELSE LET s1 == _eliminate_empty_tiles(self, self.state, kwargs.direction)
             s2 == _squash_equal_tiles(self, s1, kwargs.direction)
             s3 == _eliminate_empty_tiles(self, s2, kwargs.direction)
         IN [raised |-> FALSE, self_state |-> s3, state |-> s3]

_invoke_max(self, kwargs) ==
    IF ~can_invoke(self, kwargs)
    THEN [raised |-> TRUE, self_state |-> self.state, state |-> self.state]
    ELSE LET s1 == _eliminate_empty_tiles(self, self.state, kwargs.direction)
             s2 == _squash_equal_tiles(self, s1, kwargs.direction)
             s3 == _eliminate_empty_tiles(self, s2, kwargs.direction)
         IN [raised |-> FALSE, self_state |-> self.state, state |-> s3]

\* Game2048(state, player, size, terminal_score)
Game2048(state, player, size, terminal_score) ==
    [state |-> state, player |-> player, size |-> size,
     terminal_score |-> terminal_score]

\* invoke that hands the new game (width, height) for its size.
invoke_swapped_size(self, kwargs) ==
    LET r == IF self.player = MIN THEN _invoke_min(self, kwargs)
             ELSE _invoke_max(self, kwargs)
    IN [raised |-> r.raised,
        self |-> Game2048(r.self_state, self.player, self.size, self.terminal_score),
        rv |-> Game2048(r.state, 0 - self.player, <<self.size[2], self.size[1]>>,
                        self.terminal_score)]

\* Game2048.invoke: self is the receiver after the call, rv the returned game
\* (meaningful only when nothing was raised).
invoke(self, kwargs) ==
    LET r == IF self.player = MIN THEN _invoke_min(self, kwargs)
             ELSE _invoke_max(self, kwargs)
    IN [raised |-> r.raised,
        self |-> Game2048(r.self_state, self.player, self.size, self.terminal_score),
        rv |-> Game2048(r.state, 0 - self.player, self.size, self.terminal_score)]

\* ------------------------------------------------------------------------
\* rules.py: heuristics
\* ------------------------------------------------------------------------

\* A utility value.  max_utility() = 10 ** (log2(terminal_score) + 10) is at
\* least 10^12 and exceeds what 32-bit arithmetic holds, while the heuristic
\* of a board of the sizes modelled stays below 10^5 in magnitude; so a
\* value is kept as the exact number (m * max_utility() + h / 2) / d with
\* integers m, h and d > 0, and two values are ordered by m, then by h.
\* inf is -1 or 1 for -math.inf and math.inf, else 0.
RECURSIVE Gcd(_, _)
Gcd(a, b) == IF b = 0 THEN Abs(a) ELSE Gcd(Abs(b), Abs(a) % Abs(b))

Value(m, h, d) ==
    LET g == Gcd(Gcd(m, h), d)
    IN [inf |-> 0, m |-> m \div g, h |-> h \div g, d |-> d \div g]

NegInf == [inf |-> 0 - 1, m |-> 0, h |-> 0, d |-> 1]

\* a < b
Less(a, b) ==
    IF a.inf # b.inf THEN a.inf < b.inf
    ELSE IF a.inf # 0 THEN FALSE
    ELSE \/ a.m * b.d < b.m * a.d
         \/ a.m * b.d = b.m * a.d /\ a.h * b.d < b.h * a.d

\* Python's max(a, b): b only when it is greater.
PyMax(a, b) == IF Less(a, b) THEN b ELSE a

\* a + b and a / k on finite values.
Plus(a, b) == Value(a.m * b.d + b.m * a.d, a.h * b.d + b.h * a.d, a.d * b.d)

\* d = 0 stands for the ZeroDivisionError of a division by 0.
DividedBy(a, k) ==
    IF k = 0 THEN [inf |-> 0, m |-> 0, h |-> 0, d |-> 0]
    ELSE Value(a.m, a.h, a.d * k)

Zero == Value(0, 0, 1)

\* Game2048.score: max(0, *tiles).  On a board without any tile the source
\* raises TypeError (max(0) has nothing to iterate); score is only applied to
\* boards that hold a tile, as every board after initialize does.
MaxOf(S) == IF S = {} THEN 0
            ELSE CHOOSE y \in S : \A z \in S : z <= y

score(self) == MaxOf({self.state[p] : p \in DOMAIN self.state} \ {None})

max_utility(self) == Value(1, 0, 1)

min_utility(self) == LET u == max_utility(self) IN Value(0 - u.m, 0 - u.h, u.d)

\* int(math.log(x, 2)) for x a power of two (exact for every exponent below
\* 200 in CPython) and for x = 1.
RECURSIVE Log2(_)
Log2(x) == IF x <= 1 THEN 0 ELSE 1 + Log2(x \div 2)

\* Game2048._utility, doubled: d of the source is a multiple of one half, so
\* 2 * d = 2 * maxlen - |2 - max(1, 2 * |a - b|)| is an integer.
RECURSIVE utility_from(_, _)
utility_from(arr, i) ==
    LET maxlen == Len(arr) IN
    IF i + 1 >= maxlen THEN 0
    ELSE LET a == arr[i + 1]
             b == arr[i + 2]
             s == IF a >= b THEN 1 ELSE 0 - 1
             w == maxlen - i
             d2 == 2 * maxlen - Abs(2 - Max2(1, 2 * Abs(a - b)))
         IN s * w * d2 * (a + 1) * (b + 1) + utility_from(arr, i + 1)

_utility(arr) == utility_from(arr, 0)

\* The heuristic branch of utility(): the better of the two snakes.
snake_utility(self, d) ==
    LET trail == _board_as_snake(self.size, d)
        powers == [k \in 1..Len(trail) |->
                     Log2(IF self.state[trail[k]] = None THEN 1
                          ELSE self.state[trail[k]])]
    IN _utility(powers)

\* utility() that tests for a missing action before it tests the score.
utility_actions_first(self) ==
    IF actions(self) = <<>> THEN min_utility(self)
    ELSE IF score(self) >= self.terminal_score THEN max_utility(self)
    ELSE Value(0, Max2(snake_utility(self, "RIGHT"), snake_utility(self, "DOWN")), 1)

utility(self) ==
    IF score(self) >= self.terminal_score THEN max_utility(self)
    ELSE IF actions(self) = <<>> THEN min_utility(self)
    ELSE Value(0, Max2(snake_utility(self, "RIGHT"), snake_utility(self, "DOWN")), 1)

terminal_test(self) ==
    IF score(self) >= self.terminal_score THEN TRUE
    ELSE IF actions(self) = <<>> THEN TRUE
    ELSE FALSE

\* ------------------------------------------------------------------------
\* search.py: expectimax
\* ------------------------------------------------------------------------

RECURSIVE _expectimax_max_value(_, _), _expectimax_chance_value(_, _)

\* The loop of _expectimax_max_value over the actions, from the k-th one.
RECURSIVE max_value_from(_, _, _, _, _)
max_value_from(game_, acts, k, rv, depth) ==
    IF k > Len(acts) THEN rv
    ELSE LET ply == invoke(game_, acts[k]).rv
         IN max_value_from(game_, acts, k + 1,
                           PyMax(rv, _expectimax_chance_value(ply, depth - 1)), depth)

\* The loop of _expectimax_chance_value over the actions, from the k-th one.
RECURSIVE chance_value_from(_, _, _, _, _)
chance_value_from(game_, acts, k, rv, depth) ==
    IF k > Len(acts) THEN rv
    ELSE LET ply == invoke(game_, acts[k]).rv
         IN chance_value_from(game_, acts, k + 1,
                              Plus(rv, _expectimax_max_value(ply, depth - 1)), depth)

_expectimax_max_value(game_, depth) ==
    IF terminal_test(game_) \/ depth = 0 THEN utility(game_)
    ELSE max_value_from(game_, actions(game_), 1, NegInf, depth)

\* _expectimax_chance_value dividing by the number of all actions.
_expectimax_chance_value_all(game_, depth) ==
    IF terminal_test(game_) \/ depth = 0 THEN utility(game_)
    ELSE LET acts == actions(game_)
         IN DividedBy(chance_value_from(game_, acts, 1, Zero, depth),
                      Len(all_actions(game_)))

_expectimax_chance_value(game_, depth) ==
    IF terminal_test(game_) \/ depth = 0 THEN utility(game_)
    ELSE LET acts == actions(game_)
         IN DividedBy(chance_value_from(game_, acts, 1, Zero, depth), Len(acts))

\* The calls of the value functions of expectimax that one call makes, itself
\* included: the function called, the depth it is passed, the number of
\* plies below the first call, whether its state is terminal and whether it
\* goes on to its children.  Both functions return utility() on a terminal
\* state or at depth 0 and pass depth - 1 to every child otherwise.
RECURSIVE expectimax_calls(_, _, _)
expectimax_calls(game_, depth, ply) ==
    {[fn |-> IF game_.player = MAX THEN "_expectimax_max_value"
             ELSE "_expectimax_chance_value",
      depth |-> depth, ply |-> ply, terminal |-> terminal_test(game_),
      expanded |-> ~(terminal_test(game_) \/ depth = 0)]}
    \cup
    (IF terminal_test(game_) \/ depth = 0 THEN {}
     ELSE UNION {expectimax_calls(invoke(game_, actions(game_)[k]).rv,
                                  depth - 1, ply + 1) :
                   k \in 1..Len(actions(game_))})

\* ------------------------------------------------------------------------
\* search.py: minimax with alpha-beta pruning, the functions as written
\* (what cached() returns when CACHE_ENABLED is false)
\* ------------------------------------------------------------------------

PosInf == [inf |-> 1, m |-> 0, h |-> 0, d |-> 1]

\* Python's min(a, b): b only when it is smaller.
PyMin(a, b) == IF Less(b, a) THEN b ELSE a

RECURSIVE _minimax_max_value(_, _, _, _), _minimax_min_value(_, _, _, _)

\* The loop of _minimax_max_value over the actions, from the k-th one.
RECURSIVE minimax_max_from(_, _, _, _, _, _, _)
minimax_max_from(game_, acts, k, rv, alpha, beta, depth) ==
    IF k > Len(acts) THEN rv
    ELSE LET ply == invoke(game_, acts[k]).rv
             rv2 == PyMax(rv, _minimax_min_value(ply, alpha, beta, depth - 1))
         IN IF ~Less(rv2, beta) THEN rv2
            ELSE minimax_max_from(game_, acts, k + 1, rv2, PyMax(alpha, rv2),
                                  beta, depth)

\* The loop of _minimax_min_value over the actions, from the k-th one.
RECURSIVE minimax_min_from(_, _, _, _, _, _, _)
minimax_min_from(game_, acts, k, rv, alpha, beta, depth) ==
    IF k > Len(acts) THEN rv
    ELSE LET ply == invoke(game_, acts[k]).rv
             rv2 == PyMin(rv, _minimax_max_value(ply, alpha, beta, depth - 1))
         IN IF ~Less(alpha, rv2) THEN rv2
            ELSE minimax_min_from(game_, acts, k + 1, rv2, alpha,
                                  PyMin(beta, rv2), depth)

_minimax_max_value(game_, alpha, beta, depth) ==
    IF terminal_test(game_) \/ depth = 0 THEN utility(game_)
    ELSE minimax_max_from(game_, actions(game_), 1, NegInf, alpha, beta, depth)

_minimax_min_value(game_, alpha, beta, depth) ==
    IF terminal_test(game_) \/ depth = 0 THEN utility(game_)
    ELSE minimax_min_from(game_, actions(game_), 1, PosInf, alpha, beta, depth)

\* ------------------------------------------------------------------------
\* search.py: the decisions
\* ------------------------------------------------------------------------

\* operator.gt and operator.lt.
Cmp(cmp, a, b) == IF cmp = "gt" THEN Less(b, a) ELSE Less(a, b)

\* The tolerance 0.0001 of _optimize_immediate_utility.
Tolerance == Value(0, 2, 10000)

\* abs(v - best) <= 0.0001 on finite values (a difference with an infinity
\* is infinite or nan, and the comparison is false).
WithinTolerance(v, best) ==
    IF v.inf # 0 \/ best.inf # 0 THEN FALSE
    ELSE LET diff == Plus(v, Value(0 - best.m, 0 - best.h, best.d))
             abs == Value(Abs(diff.m), IF diff.m = 0 THEN Abs(diff.h)
                                      ELSE IF diff.m > 0 THEN diff.h
                                      ELSE 0 - diff.h, diff.d)
         IN ~Less(Tolerance, abs)

\* best = None before the first candidate.
NoBest == [inf |-> 2, m |-> 0, h |-> 0, d |-> 1]

\* The first loop of _optimize_immediate_utility, from the k-th candidate:
\* a candidate that beats best becomes the only tie, one that equals best or
\* is within the tolerance of it is appended.
RECURSIVE ties_from(_, _, _, _, _)
ties_from(utilities, k, best, ties, cmp) ==
    IF k > Len(utilities) THEN [best |-> best, ties |-> ties]
    ELSE LET a == utilities[k][1]
             v == utilities[k][2]
         IN IF best = NoBest \/ Cmp(cmp, v, best)
            THEN ties_from(utilities, k + 1, v, <<a>>, cmp)
            ELSE IF v = best \/ WithinTolerance(v, best)
            THEN ties_from(utilities, k + 1, best, Append(ties, a), cmp)
            ELSE ties_from(utilities, k + 1, best, ties, cmp)

\* The second loop, over the ties from the k-th one: the first tie whose
\* child has the best immediate utility.
RECURSIVE immediate_from(_, _, _, _, _, _)
immediate_from(game_, ties, k, best, rv, cmp) ==
    IF k > Len(ties) THEN rv
    ELSE LET a == ties[k]
             v == utility(invoke(game_, a).rv)
         IN IF best = NoBest \/ Cmp(cmp, v, best)
            THEN immediate_from(game_, ties, k + 1, v, a, cmp)
            ELSE immediate_from(game_, ties, k + 1, best, rv, cmp)

\* _optimize_immediate_utility returning rv as it is before the second loop.
_optimize_immediate_utility_unbroken(game_, utilities, cmp) ==
    LET ties == ties_from(utilities, 1, NoBest, <<>>, cmp).ties
    IN IF Len(ties) = 1 THEN ties[1]
       ELSE <<>>

_optimize_immediate_utility(game_, utilities, cmp) ==
    LET ties == ties_from(utilities, 1, NoBest, <<>>, cmp).ties
    IN IF Len(ties) = 1 THEN ties[1]
       ELSE immediate_from(game_, ties, 1, NoBest, <<>>, cmp)

\* The list utilities of expectimax_decision when the Actor is to move:
\* every legal action with the chance value of its child at that depth.
expectimax_utilities(game_, depth) ==
    [k \in 1..Len(actions(game_)) |->
       <<actions(game_)[k],
         _expectimax_chance_value(invoke(game_, actions(game_)[k]).rv, depth)>>]

\* The outcomes of expectimax_decision(game_, depth): StopIteration without
\* a legal action; random.choice(actions) for Chance; else the candidates
\* are valued and one is chosen.  utilities lists the values computed,
\* searched the depth they were computed at.
expectimax_decision(game_, depth) ==
    IF actions(game_) = <<>>
    THEN {[raised |-> "StopIteration", rv |-> <<>>, utilities |-> <<>>,
           cmp |-> "none", searched |-> depth]}
    ELSE IF game_.player = MIN
    THEN {[raised |-> "", rv |-> a, utilities |-> <<>>, cmp |-> "none",
           searched |-> depth] : a \in SeqRange(actions(game_))}
    ELSE {[raised |-> "",
           rv |-> _optimize_immediate_utility(game_, utilities, "gt"),
           utilities |-> utilities, cmp |-> "gt", searched |-> depth] :
             utilities \in {expectimax_utilities(game_, depth)}}

\* The list utilities of minimax_decision: a Chance state is searched too,
\* its children valued by _minimax_max_value, the Actor's by
\* _minimax_min_value.
minimax_utilities(game_, depth) ==
    [k \in 1..Len(actions(game_)) |->
       <<actions(game_)[k],
         IF game_.player = MIN
         THEN _minimax_max_value(invoke(game_, actions(game_)[k]).rv,
                                 NegInf, PosInf, depth)
         ELSE _minimax_min_value(invoke(game_, actions(game_)[k]).rv,
                                 NegInf, PosInf, depth)>>]

\* minimax_decision(game_, depth): the least value is chosen for Chance
\* (operator.lt), the greatest for the Actor (operator.gt).
minimax_decision(game_, depth) ==
    IF actions(game_) = <<>>
    THEN {[raised |-> "StopIteration", rv |-> <<>>, utilities |-> <<>>,
           cmp |-> "none", searched |-> depth]}
    ELSE {[raised |-> "",
           rv |-> _optimize_immediate_utility(
                     game_, utilities, IF game_.player = MIN THEN "lt" ELSE "gt"),
           utilities |-> utilities,
           cmp |-> IF game_.player = MIN THEN "lt" ELSE "gt",
           searched |-> depth] :
             utilities \in {minimax_utilities(game_, depth)}}

\* ------------------------------------------------------------------------
\* cache.py: the memoizing decorator over cachetools.RRCache
\* ------------------------------------------------------------------------

\* hash() of an int: the number itself (the ints hashed here are far below
\* the modulus 2^61 - 1), except that no hash is -1: hash(-1) is -2.
HashInt(n) == IF n = 0 - 1 THEN 0 - 2 ELSE n

\* hash() of a float alpha or beta: an integral float hashes as the int it
\* equals, so hash(-1.0) = hash(-2.0) = -2; math.inf hashes to 314159 and
\* -math.inf to -314159; any other value keeps a hash of its own.
HashFloat(v) ==
    IF v.inf = 1 THEN Value(0, 2 * 314159, 1)
    ELSE IF v.inf = 0 - 1 THEN Value(0, 0 - 2 * 314159, 1)
    ELSE IF v = Value(0, 0 - 2, 1) THEN Value(0, 0 - 4, 1)
    ELSE v

\* Game2048.__hash__: hash((tuple(state.items()), player, size,
\* terminal_score)).  CPython computes the hash of a tuple from the hashes
\* of its items, so a tuple's hash is kept as the tuple of its items'
\* hashes: tuples whose items hash alike hash alike, and tuples that differ
\* in an item's hash are taken to hash apart.
HashGame(self) ==
    <<self.state, HashInt(self.player), self.size, self.terminal_score>>

\* _cachekey(*args, **kwargs) = hash((args, kwargs)) on the hashes of the
\* positional arguments and of the (name, value) pairs of the keywords.
_cachekey(args, kwargs) == <<args, kwargs>>

\* StatisticsCache(maxsize): an empty RRCache with both counters at 0.  The
\* data is the set of the (key, value) entries.
StatisticsCache(maxsize) ==
    [data |-> {}, hit |-> 0, miss |-> 0, maxsize |-> maxsize]

Keys(cache) == {e.key : e \in cache.data}

\* StatisticsCache.__getitem__(key): the stored value and one more hit, or
\* KeyError and one more miss.
__getitem__(cache, key) ==
    IF key \in Keys(cache)
    THEN [found |-> TRUE, cache |-> [cache EXCEPT !.hit = @ + 1],
          rv |-> (CHOOSE e \in cache.data : e.key = key).value]
    ELSE [found |-> FALSE, cache |-> [cache EXCEPT !.miss = @ + 1]]

\* RRCache.popitem(): a key chosen at random is removed with pop(key), and
\* Cache.pop reads the value with self[key] before it deletes the entry, so
\* the eviction goes through __getitem__.  The caches it can leave.
popitem(cache) ==
    {[__getitem__(cache, e.key).cache EXCEPT !.data = @ \ {e}] : e \in cache.data}

\* Cache.__setitem__(key, value): while the cache is full and the key is
\* new, popitem(); then the entry is stored.  The caches it can leave.
RECURSIVE __setitem__(_, _, _)
__setitem__(cache, key, value) ==
    IF key \notin Keys(cache) /\ Cardinality(cache.data) + 1 > cache.maxsize
    THEN UNION {__setitem__(c, key, value) : c \in popitem(cache)}
    ELSE {[cache EXCEPT !.data = {e \in @ : e.key # key}
                                   \cup {[key |-> key, value |-> value]}]}

\* The wrapper cachetools.cached(cache, key) puts around func, for a call
\* whose key is k and for which func would return v: return cache[k] if the
\* key is there; else call func and store its result.  The outcomes.
inner(cache, k, v) ==
    LET got == __getitem__(cache, k)
    IN IF got.found
       THEN {[cache |-> got.cache, rv |-> got.rv, called |-> FALSE]}
       ELSE {[cache |-> c, rv |-> v, called |-> TRUE] :
                c \in __setitem__(got.cache, k, v)}

\* StatisticsCache.reset_stats().
reset_stats(cache) == [cache EXCEPT !.hit = 0, !.miss = 0]

\* A filter that is not given (None), and the group of a cache made by
\* cached() without group=.
NoFilter == "None"

\* The group, module and name cached() gives the cache it registers under
\* module + '.' + name.  No decorator of rules.py or search.py passes group=.
CacheMeta ==
    [k \in {"rules._rotate_board", "rules.all_actions"} |->
       [group |-> NoFilter,
        module |-> "rules",
        name |-> IF k = "rules._rotate_board" THEN "_rotate_board"
                 ELSE "all_actions"]]

\* _iter_caches that does not look at the name filter.
_iter_caches_unnamed(cs, filters) ==
    {k \in DOMAIN cs :
        /\ ~(filters.group # NoFilter /\ CacheMeta[k].group # filters.group)
        /\ ~(filters.module # NoFilter /\ CacheMeta[k].module # filters.module)}

\* _iter_caches(group, module, name): the registered caches that no given
\* filter excludes.
_iter_caches(cs, filters) ==
    {k \in DOMAIN cs :
        /\ ~(filters.group # NoFilter /\ CacheMeta[k].group # filters.group)
        /\ ~(filters.module # NoFilter /\ CacheMeta[k].module # filters.module)
        /\ ~(filters.name # NoFilter /\ CacheMeta[k].name # filters.name)}

\* cache.reset_stats(**filters): reset_stats() on every cache iterated.
cache_reset_stats(cs, filters) ==
    [k \in DOMAIN cs |->
       IF k \in _iter_caches(cs, filters) THEN reset_stats(cs[k]) ELSE cs[k]]

\* ------------------------------------------------------------------------
\* search.py: the memoized minimax value functions.  cs holds the caches
\* of the two functions; each operator yields the outcomes [cs, rv] the call
\* can have, one for every choice of the random evictions.
\* ------------------------------------------------------------------------

MaxValueCache == "search._minimax_max_value"

MinValueCache == "search._minimax_min_value"

\* _cachekey(game_, alpha, beta, depth=depth).
ValueKey(game_, alpha, beta, depth) ==
    _cachekey(<<<<HashGame(game_)>>, <<HashFloat(alpha)>>, <<HashFloat(beta)>>>>,
              <<<<"depth", <<HashInt(depth)>>>>>>)

RECURSIVE cached_minimax_max_value(_, _, _, _, _)
RECURSIVE cached_minimax_min_value(_, _, _, _, _)

\* The loop of the memoized _minimax_max_value that cuts off against alpha
\* instead of beta.
RECURSIVE cached_max_from_alpha(_, _, _, _, _, _, _, _)
cached_max_from_alpha(cs, game_, acts, k, rv, alpha, beta, depth) ==
    IF k > Len(acts) THEN {[cs |-> cs, rv |-> rv]}
    ELSE LET ply == invoke(game_, acts[k]).rv
         IN UNION {LET rv2 == PyMax(rv, o.rv)
                   IN IF ~Less(rv2, alpha) THEN {[cs |-> o.cs, rv |-> rv2]}
                      ELSE cached_max_from_alpha(o.cs, game_, acts, k + 1, rv2,
                                                 PyMax(alpha, rv2), beta, depth)
                   : o \in cached_minimax_min_value(cs, ply, alpha, beta, depth - 1)}

RECURSIVE cached_max_from(_, _, _, _, _, _, _, _)
cached_max_from(cs, game_, acts, k, rv, alpha, beta, depth) ==
    IF k > Len(acts) THEN {[cs |-> cs, rv |-> rv]}
    ELSE LET ply == invoke(game_, acts[k]).rv
         IN UNION {LET rv2 == PyMax(rv, o.rv)
                   IN IF ~Less(rv2, beta) THEN {[cs |-> o.cs, rv |-> rv2]}
                      ELSE cached_max_from(o.cs, game_, acts, k + 1, rv2,
                                           PyMax(alpha, rv2), beta, depth)
                   : o \in cached_minimax_min_value(cs, ply, alpha, beta, depth - 1)}

RECURSIVE cached_min_from(_, _, _, _, _, _, _, _)
cached_min_from(cs, game_, acts, k, rv, alpha, beta, depth) ==
    IF k > Len(acts) THEN {[cs |-> cs, rv |-> rv]}
    ELSE LET ply == invoke(game_, acts[k]).rv
         IN UNION {LET rv2 == PyMin(rv, o.rv)
                   IN IF ~Less(alpha, rv2) THEN {[cs |-> o.cs, rv |-> rv2]}
                      ELSE cached_min_from(o.cs, game_, acts, k + 1, rv2, alpha,
                                           PyMin(beta, rv2), depth)
                   : o \in cached_minimax_max_value(cs, ply, alpha, beta, depth - 1)}

\* The end of the wrapper after a miss: every outcome of the body stores its
\* result under k in the cache of that name.
Stored(name, k, outcomes) ==
    UNION {{[cs |-> [o.cs EXCEPT ![name] = c], rv |-> o.rv] :
               c \in __setitem__(o.cs[name], k, o.rv)} : o \in outcomes}

\* The wrapper around _minimax_max_value: the lookup, on a miss the body,
\* then the store.
cached_minimax_max_value(cs, game_, alpha, beta, depth) ==
    LET k == ValueKey(game_, alpha, beta, depth)
        got == __getitem__(cs[MaxValueCache], k)
        looked == [cs EXCEPT ![MaxValueCache] = got.cache]
    IN IF got.found THEN {[cs |-> looked, rv |-> got.rv]}
       ELSE Stored(MaxValueCache, k,
                   IF terminal_test(game_) \/ depth = 0
                   THEN {[cs |-> looked, rv |-> utility(game_)]}
                   ELSE cached_max_from(looked, game_, actions(game_), 1, NegInf,
                                        alpha, beta, depth))

\* The wrapper around _minimax_min_value.
cached_minimax_min_value(cs, game_, alpha, beta, depth) ==
    LET k == ValueKey(game_, alpha, beta, depth)
        got == __getitem__(cs[MinValueCache], k)
        looked == [cs EXCEPT ![MinValueCache] = got.cache]
    IN IF got.found THEN {[cs |-> looked, rv |-> got.rv]}
       ELSE Stored(MinValueCache, k,
                   IF terminal_test(game_) \/ depth = 0
                   THEN {[cs |-> looked, rv |-> utility(game_)]}
                   ELSE cached_min_from(looked, game_, actions(game_), 1, PosInf,
                                        alpha, beta, depth))

\* The loop of minimax_decision over the actions, from the k-th one, with
\* the memoized value functions: the child of each action is valued from the
\* window (-inf, +inf) through the wrapper, which reads and fills the caches.
RECURSIVE cached_utilities_from(_, _, _, _, _, _)
cached_utilities_from(cs, game_, acts, k, utilities, depth) ==
    IF k > Len(acts) THEN {[cs |-> cs, utilities |-> utilities]}
    ELSE UNION {cached_utilities_from(o.cs, game_, acts, k + 1,
                                      Append(utilities, <<acts[k], o.rv>>), depth) :
                  o \in IF game_.player = MIN
                        THEN cached_minimax_max_value(
                                cs, invoke(game_, acts[k]).rv, NegInf, PosInf, depth)
                        ELSE cached_minimax_min_value(
                                cs, invoke(game_, acts[k]).rv, NegInf, PosInf, depth)}

\* minimax_decision(game_, depth) with CACHE_ENABLED: its outcomes and the
\* caches it leaves.
cached_minimax_decision(cs, game_, depth) ==
    IF actions(game_) = <<>>
    THEN {[cs |-> cs, raised |-> "StopIteration", rv |-> <<>>,
           utilities |-> <<>>, cmp |-> "none", searched |-> depth]}
    ELSE {[cs |-> o.cs, raised |-> "",
           rv |-> _optimize_immediate_utility(
                     game_, o.utilities, IF game_.player = MIN THEN "lt" ELSE "gt"),
           utilities |-> o.utilities,
           cmp |-> IF game_.player = MIN THEN "lt" ELSE "gt",
           searched |-> depth] :
             o \in cached_utilities_from(cs, game_, actions(game_), 1, <<>>, depth)}

\* ------------------------------------------------------------------------
\* search.py: minimax_decision with CACHE_ENABLED when a KeyboardInterrupt
\* can arrive during the call.  No frame of search.py or cache.py catches
\* it (the finally of the decision only reads attributes), so it leaves
\* every frame it passes.  The outcomes [cs, rv, raised] of a call: raised
\* tells that the interrupt left the call, and rv is then the rv the frame
\* had built.
\* ------------------------------------------------------------------------

RECURSIVE interruptible_minimax_max_value(_, _, _, _, _)
RECURSIVE interruptible_minimax_min_value(_, _, _, _, _)

RECURSIVE interruptible_max_from(_, _, _, _, _, _, _, _)
interruptible_max_from(cs, game_, acts, k, rv, alpha, beta, depth) ==
    IF k > Len(acts) THEN {[cs |-> cs, rv |-> rv, raised |-> FALSE]}
    ELSE LET ply == invoke(game_, acts[k]).rv
         IN UNION {IF o.raised THEN {[cs |-> o.cs, rv |-> rv, raised |-> TRUE]}
                   ELSE LET rv2 == PyMax(rv, o.rv)
                        IN IF ~Less(rv2, beta)
                           THEN {[cs |-> o.cs, rv |-> rv2, raised |-> FALSE]}
                           ELSE interruptible_max_from(o.cs, game_, acts, k + 1, rv2,
                                                       PyMax(alpha, rv2), beta, depth)
                   : o \in interruptible_minimax_min_value(cs, ply, alpha, beta,
                                                           depth - 1)}

RECURSIVE interruptible_min_from(_, _, _, _, _, _, _, _)
interruptible_min_from(cs, game_, acts, k, rv, alpha, beta, depth) ==
    IF k > Len(acts) THEN {[cs |-> cs, rv |-> rv, raised |-> FALSE]}
    ELSE LET ply == invoke(game_, acts[k]).rv
         IN UNION {IF o.raised THEN {[cs |-> o.cs, rv |-> rv, raised |-> TRUE]}
                   ELSE LET rv2 == PyMin(rv, o.rv)
                        IN IF ~Less(alpha, rv2)
                           THEN {[cs |-> o.cs, rv |-> rv2, raised |-> FALSE]}
                           ELSE interruptible_min_from(o.cs, game_, acts, k + 1, rv2,
                                                       alpha, PyMin(beta, rv2), depth)
                   : o \in interruptible_minimax_max_value(cs, ply, alpha, beta,
                                                           depth - 1)}

\* The end of the wrapper after a miss, "v = func(*args, **kwargs)" and then
\* "cache[k] = v", with a store even when func was left by the interrupt.
StoredThoughRaised(name, k, outcomes) ==
    UNION {{[cs |-> [o.cs EXCEPT ![name] = c], rv |-> o.rv, raised |-> o.raised] :
               c \in __setitem__(o.cs[name], k, o.rv)} : o \in outcomes}

\* The end of the wrapper after a miss, "v = func(*args, **kwargs)" and then
\* "cache[k] = v": a body the interrupt left stores nothing; a body that
\* returned is followed by the store, unless the interrupt arrives first.
StoredUnlessRaised(name, k, outcomes) ==
    UNION {IF o.raised THEN {o}
           ELSE {[cs |-> o.cs, rv |-> o.rv, raised |-> TRUE]}
                \cup {[cs |-> [o.cs EXCEPT ![name] = c], rv |-> o.rv, raised |-> FALSE] :
                         c \in __setitem__(o.cs[name], k, o.rv)}
           : o \in outcomes}

\* The wrapper around _minimax_max_value: the interrupt before the lookup,
\* or the lookup, on a miss the body, then the store.
interruptible_minimax_max_value(cs, game_, alpha, beta, depth) ==
    LET k == ValueKey(game_, alpha, beta, depth)
        got == __getitem__(cs[MaxValueCache], k)
        looked == [cs EXCEPT ![MaxValueCache] = got.cache]
    IN {[cs |-> cs, rv |-> NegInf, raised |-> TRUE]}
       \cup IF got.found THEN {[cs |-> looked, rv |-> got.rv, raised |-> FALSE]}
            ELSE StoredUnlessRaised(MaxValueCache, k,
                    IF terminal_test(game_) \/ depth = 0
                    THEN {[cs |-> looked, rv |-> utility(game_), raised |-> FALSE]}
                    ELSE interruptible_max_from(looked, game_, actions(game_), 1,
                                                NegInf, alpha, beta, depth))

\* The wrapper around _minimax_min_value.
interruptible_minimax_min_value(cs, game_, alpha, beta, depth) ==
    LET k == ValueKey(game_, alpha, beta, depth)
        got == __getitem__(cs[MinValueCache], k)
        looked == [cs EXCEPT ![MinValueCache] = got.cache]
    IN {[cs |-> cs, rv |-> PosInf, raised |-> TRUE]}
       \cup IF got.found THEN {[cs |-> looked, rv |-> got.rv, raised |-> FALSE]}
            ELSE StoredUnlessRaised(MinValueCache, k,
                    IF terminal_test(game_) \/ depth = 0
                    THEN {[cs |-> looked, rv |-> utility(game_), raised |-> FALSE]}
                    ELSE interruptible_min_from(looked, game_, actions(game_), 1,
                                                PosInf, alpha, beta, depth))

\* The loop of minimax_decision over the actions, from the k-th one.
RECURSIVE interruptible_utilities_from(_, _, _, _, _, _)
interruptible_utilities_from(cs, game_, acts, k, utilities, depth) ==
    IF k > Len(acts) THEN {[cs |-> cs, utilities |-> utilities, raised |-> FALSE]}
    ELSE UNION {IF o.raised
                THEN {[cs |-> o.cs, utilities |-> utilities, raised |-> TRUE]}
                ELSE interruptible_utilities_from(
                        o.cs, game_, acts, k + 1,
                        Append(utilities, <<acts[k], o.rv>>), depth) :
                  o \in IF game_.player = MIN
                        THEN interruptible_minimax_max_value(
                                cs, invoke(game_, acts[k]).rv, NegInf, PosInf, depth)
                        ELSE interruptible_minimax_min_value(
                                cs, invoke(game_, acts[k]).rv, NegInf, PosInf, depth)}

\* minimax_decision(game_, depth) with CACHE_ENABLED: it returns an action,
\* or raises StopIteration, or is left by the KeyboardInterrupt, which may
\* also arrive after the loop, in _optimize_immediate_utility.
interruptible_minimax_decision(cs, game_, depth) ==
    IF actions(game_) = <<>>
    THEN {[cs |-> cs, raised |-> "StopIteration", rv |-> <<>>,
           utilities |-> <<>>, cmp |-> "none", searched |-> depth]}
    ELSE UNION {{[cs |-> o.cs, raised |-> "KeyboardInterrupt", rv |-> <<>>,
                  utilities |-> o.utilities,
                  cmp |-> IF game_.player = MIN THEN "lt" ELSE "gt",
                  searched |-> depth]}
                \cup IF o.raised THEN {}
                     ELSE {[cs |-> o.cs, raised |-> "",
                            rv |-> _optimize_immediate_utility(
                                      game_, o.utilities,
                                      IF game_.player = MIN THEN "lt" ELSE "gt"),
                            utilities |-> o.utilities,
                            cmp |-> IF game_.player = MIN THEN "lt" ELSE "gt",
                            searched |-> depth]} :
                  o \in interruptible_utilities_from(cs, game_, actions(game_), 1,
                                                     <<>>, depth)}

\* ------------------------------------------------------------------------
\* The play: initialize, then invoke after invoke
\* ------------------------------------------------------------------------

Sizes == {s \in (1..MaxCells) \X (1..MaxCells) : s[1] * s[2] <= MaxCells}

TerminalScores == {Pow2(k) : k \in 2..MaxTerminalExp}

Rectangle(size) == (0..(size[1] - 1)) \X (0..(size[2] - 1))

\* Game2048.initialize, before its random insertion: the empty board, Chance
\* to move.
EmptyGame(size, terminal_score) ==
    Game2048([p \in Rectangle(size) |-> None], MIN, size, terminal_score)

\* No value function has been called on the current game.
NoSearch == [fn |-> "none"]

\* The plays below leave the caches out: no cache is looked at and no
\* memoized call is recorded.
NoCaches == <<>>

NoCall == [fn |-> "none"]

Init ==
    \E size \in Sizes, terminal_score \in TerminalScores :
       LET g0 == EmptyGame(size, terminal_score)
           as == actions(g0)
       IN \E k \in 1..Len(as) :
             LET r == invoke(g0, as[k])
             IN /\ config = [size |-> size, terminal_score |-> terminal_score]
                /\ game = r.rv
                /\ last = [kind |-> "initialize", before |-> g0, after |-> r.self,
                           kwargs |-> as[k]]
                /\ plies = 1
                /\ limit = MaxPlies
                /\ search = NoSearch
                /\ caches = NoCaches
                /\ call = NoCall

\* game_ = game_.invoke(**kwargs) with any action of all_actions().
InvokeOk ==
    /\ plies < limit
    /\ \E kwargs \in SeqRange(all_actions(game)) :
          LET r == invoke(game, kwargs)
          IN /\ ~r.raised
             /\ game' = r.rv
             /\ last' = [kind |-> "invoke", before |-> game, after |-> r.self,
                         kwargs |-> kwargs]
             /\ plies' = plies + 1
    /\ search' = NoSearch
    /\ UNCHANGED <<config, limit, caches, call>>

\* The same call when it raises ValueError: the caller keeps its game.
InvokeRaises ==
    /\ \E kwargs \in SeqRange(all_actions(game)) :
          LET r == invoke(game, kwargs)
          IN /\ r.raised
             /\ game' = r.self
             /\ last' = [kind |-> "raised", before |-> game, after |-> r.self,
                         kwargs |-> kwargs]
    /\ UNCHANGED <<config, plies, limit, search, caches, call>>

Next == InvokeOk \/ InvokeRaises

Spec == Init /\ [][Next]_vars

\* A game built directly with the constructor Game2048(state, player, size,
\* terminal_score) on any board that holds at least one tile, with the least
\* or the greatest terminal score, and one invoke applied to it.
TileValues == {Pow2(k) : k \in 1..MaxTileExp}

CraftedTerminalScores == {Pow2(2), Pow2(MaxTerminalExp)}

InitCrafted ==
    \E size \in Sizes, terminal_score \in CraftedTerminalScores, player \in {MIN, MAX} :
       \E state \in [Rectangle(size) -> TileValues \cup {None}] :
          /\ state # [p \in Rectangle(size) |-> None]
          /\ config = [size |-> size, terminal_score |-> terminal_score]
          /\ game = Game2048(state, player, size, terminal_score)
          /\ last = [kind |-> "constructor", before |-> game, after |-> game,
                     kwargs |-> [player |-> player]]
          /\ plies = 0
          /\ limit = plies + 1
          /\ search = NoSearch
          /\ caches = NoCaches
          /\ call = NoCall

SpecCrafted == InitCrafted /\ [][Next]_vars

\* The depths a value function is called with on a game: the unlimited depth
\* -1 only with the least terminal score, 4, where the whole game tree is
\* small enough to be evaluated at every state.
Depths(g) ==
    (0..MaxDepth) \cup (IF g.terminal_score = Pow2(2) THEN {0 - 1} ELSE {})

\* A play in which the value functions of expectimax are called on the
\* current game: _expectimax_chance_value when Chance is to move,
\* _expectimax_max_value when the Actor is.
InitSearch ==
    \E size \in Sizes, terminal_score \in TerminalScores :
       LET g0 == EmptyGame(size, terminal_score)
           as == actions(g0)
       IN \E k \in 1..Len(as) :
             LET r == invoke(g0, as[k])
             IN /\ config = [size |-> size, terminal_score |-> terminal_score]
                /\ game = r.rv
                /\ last = [kind |-> "initialize", before |-> g0, after |-> r.self,
                           kwargs |-> as[k]]
                /\ plies = 1
                /\ limit = MaxSearchPlies
                /\ search = NoSearch
                /\ caches = NoCaches
                /\ call = NoCall

ChanceValue ==
    /\ game.player = MIN
    /\ \E depth \in Depths(game) :
          search' = [fn |-> "_expectimax_chance_value", game |-> game, depth |-> depth,
                     value |-> _expectimax_chance_value(game, depth)]
    /\ UNCHANGED <<config, game, last, plies, limit, caches, call>>

MaxValue ==
    /\ game.player = MAX
    /\ \E depth \in Depths(game) :
          search' = [fn |-> "_expectimax_max_value", game |-> game, depth |-> depth,
                     value |-> _expectimax_max_value(game, depth)]
    /\ UNCHANGED <<config, game, last, plies, limit, caches, call>>

NextSearch == InvokeOk \/ ChanceValue \/ MaxValue

SpecSearch == InitSearch /\ [][NextSearch]_vars

\* A play in which a value function of expectimax is called on the current
\* game and the calls it makes are recorded.
ValueCalls ==
    /\ search = NoSearch
    /\ \E depth \in Depths(game) :
          search' = [fn |-> "calls", game |-> game, depth |-> depth,
                     calls |-> expectimax_calls(game, depth, 0)]
    /\ UNCHANGED <<config, game, last, plies, limit, caches, call>>

NextDepth == InvokeOk \/ ValueCalls

SpecDepth == InitSearch /\ [][NextDepth]_vars

\* ------------------------------------------------------------------------
\* A play in which the decisions are asked for a move on the current game
\* ------------------------------------------------------------------------

Decided(fn, depth, o) ==
    search' = [fn |-> fn, game |-> game, depth |-> depth, raised |-> o.raised,
               rv |-> o.rv, utilities |-> o.utilities, cmp |-> o.cmp,
               searched |-> o.searched]

ExpectimaxDecision ==
    /\ search = NoSearch
    /\ \E depth \in Depths(game) :
          \E o \in expectimax_decision(game, depth) :
             Decided("expectimax_decision", depth, o)
    /\ UNCHANGED <<config, game, last, plies, limit, caches, call>>

MinimaxDecision ==
    /\ search = NoSearch
    /\ \E depth \in Depths(game) :
          \E o \in minimax_decision(game, depth) :
             Decided("minimax_decision", depth, o)
    /\ UNCHANGED <<config, game, last, plies, limit, caches, call>>

NextDecision == InvokeOk \/ ExpectimaxDecision \/ MinimaxDecision

SpecDecision == InitSearch /\ [][NextDecision]_vars

\* ------------------------------------------------------------------------
\* A play in which _optimize_immediate_utility is called on the current game
\* with candidate values drawn for its legal actions
\* ------------------------------------------------------------------------

\* The values drawn for the candidates: 0, 0.00005 and 0.0002, so that two
\* of them are within the tolerance of each other and two are not.
TieValues == {Value(0, 0, 1), Value(0, 1, 10000), Value(0, 4, 10000)}

\* The call made by the decisions: one candidate per legal action, in the
\* order of actions(); operator.lt for Chance, operator.gt for the Actor.
OptimizeImmediateUtility ==
    /\ search = NoSearch
    /\ actions(game) # <<>>
    /\ \E values \in [1..Len(actions(game)) -> TieValues] :
          \E utilities \in {[k \in 1..Len(actions(game)) |->
                               <<actions(game)[k], values[k]>>]} :
             \E cmp \in {IF game.player = MIN THEN "lt" ELSE "gt"} :
                search' = [fn |-> "_optimize_immediate_utility", game |-> game,
                           utilities |-> utilities, cmp |-> cmp,
                           rv |-> _optimize_immediate_utility(game, utilities, cmp)]
    /\ UNCHANGED <<config, game, last, plies, limit, caches, call>>

NextTies == InvokeOk \/ OptimizeImmediateUtility

SpecTies == InitSearch /\ [][NextTies]_vars

\* ------------------------------------------------------------------------
\* A process that calls the memoized functions of rules.py that call no
\* other memoized function: _rotate_board and all_actions
\* ------------------------------------------------------------------------

\* The board sizes the process works with.
CacheSizes == {s \in Sizes : s[1] * s[2] <= MaxCacheCells}

\* The names under which cached() registers the two caches in _caches.
RotateCache == "rules._rotate_board"

AllActionsCache == "rules.all_actions"

\* The decorators of rules.py have run: _rotate_board has a cache of
\* len(Direction) entries, all_actions one of CACHE_MAXSIZE = 2 ** cache_size
\* entries, as main sets it from --cache-size before rules is imported.
\* plies counts the calls made, limit bounds them.
InitCache ==
    \E cache_size \in 1..MaxCacheExp :
       /\ config = [cache_size |-> cache_size]
       /\ game = EmptyGame(<<1, 1>>, Pow2(2))
       /\ last = [kind |-> "none"]
       /\ plies = 0
       /\ limit = MaxCalls
       /\ search = NoSearch
       /\ caches = [name \in {RotateCache, AllActionsCache} |->
                      IF name = RotateCache THEN StatisticsCache(Len(Direction))
                      ELSE StatisticsCache(Pow2(cache_size))]
       /\ call = NoCall

\* One call through the wrapper of the cache of that name.
Memoized(name, args, k, v) ==
    \E o \in inner(caches[name], k, v) :
       /\ caches' = [caches EXCEPT ![name] = o.cache]
       /\ call' = [fn |-> name, args |-> args, key |-> k, rv |-> o.rv,
                   called |-> o.called, before |-> caches[name],
                   after |-> o.cache]

\* Game2048._rotate_board(size, direction), keyed by _cachekey(cls, size,
\* direction).
CallRotateBoard ==
    /\ plies < limit
    /\ \E size \in CacheSizes, direction \in Directions :
          Memoized(RotateCache, <<size, direction>>,
                   _cachekey(<<<<"Game2048">>, size, <<direction>>>>, <<>>),
                   _rotate_board(size, direction))
    /\ plies' = plies + 1
    /\ UNCHANGED <<config, game, last, limit, search>>

\* g.all_actions() on a game of some size, keyed by g.size.
CallAllActions ==
    /\ plies < limit
    /\ \E size \in CacheSizes :
          LET g == EmptyGame(size, Pow2(2))
          IN Memoized(AllActionsCache, <<g>>, g.size, all_actions(g))
    /\ plies' = plies + 1
    /\ UNCHANGED <<config, game, last, limit, search>>

\* cache.reset_stats() without filters.
ResetStats ==
    /\ plies < limit
    /\ caches' = [name \in DOMAIN caches |-> reset_stats(caches[name])]
    /\ call' = [fn |-> "reset_stats"]
    /\ plies' = plies + 1
    /\ UNCHANGED <<config, game, last, limit, search>>

NextCache == CallRotateBoard \/ CallAllActions \/ ResetStats

SpecCache == InitCache /\ [][NextCache]_vars

\* ------------------------------------------------------------------------
\* A process that calls the memoized functions and resets the statistics
\* with filters
\* ------------------------------------------------------------------------

\* The filters passed: each one absent, the value of a registered cache, or
\* a value no cache has.
Filters ==
    [group : {NoFilter, "expectimax"},
     module : {NoFilter, "rules", "search"},
     name : {NoFilter, "_rotate_board", "all_actions"}]

InitStats ==
    \E cache_size \in 1..MaxCacheExp :
       /\ config = [cache_size |-> cache_size]
       /\ game = EmptyGame(<<1, 1>>, Pow2(2))
       /\ last = [kind |-> "none"]
       /\ plies = 0
       /\ limit = MaxStatsCalls
       /\ search = NoSearch
       /\ caches = [name \in {RotateCache, AllActionsCache} |->
                      IF name = RotateCache THEN StatisticsCache(Len(Direction))
                      ELSE StatisticsCache(Pow2(cache_size))]
       /\ call = NoCall

ResetStatsFiltered ==
    /\ plies < limit
    /\ \E filters \in Filters :
          /\ caches' = cache_reset_stats(caches, filters)
          /\ call' = [fn |-> "reset_stats", filters |-> filters,
                      before |-> caches,
                      after |-> cache_reset_stats(caches, filters)]
    /\ plies' = plies + 1
    /\ UNCHANGED <<config, game, last, limit, search>>

NextStats == CallRotateBoard \/ CallAllActions \/ ResetStatsFiltered

SpecStats == InitStats /\ [][NextStats]_vars

\* ------------------------------------------------------------------------
\* A process that calls the memoized minimax value functions on a game
\* ------------------------------------------------------------------------

\* The board of the process: --height 2 --width 3.
MemoSize == <<2, 3>>

\* The alpha-beta windows of the calls: the full window of
\* minimax_decision, and the windows narrowed on one side to the utility
\* -1.0 or -2.0 of an earlier sibling.
MemoBounds == {Value(0, 0 - 2, 1), Value(0, 0 - 4, 1)}

AlphaBetas ==
    {<<NegInf, PosInf>>} \cup {<<b, PosInf>> : b \in MemoBounds}
                         \cup {<<NegInf, b>> : b \in MemoBounds}

\* The game is built with the constructor on a board of at most
\* MaxMemoTiles tiles; the caches of the two value functions are empty and
\* hold CACHE_MAXSIZE = 2 ** cache_size entries, more than the calls store
\* (the default is 2 ** 32).
InitMemo ==
    \E terminal_score \in CraftedTerminalScores, player \in {MIN, MAX},
       cache_size \in {2 * MaxCacheExp} :
       \E state \in [Rectangle(MemoSize) -> TileValues \cup {None}] :
          /\ Cardinality({p \in Rectangle(MemoSize) : state[p] # None})
                \in 1..MaxMemoTiles
          /\ config = [size |-> MemoSize, terminal_score |-> terminal_score,
                       cache_size |-> cache_size]
          /\ game = Game2048(state, player, MemoSize, terminal_score)
          /\ last = [kind |-> "constructor", before |-> game, after |-> game,
                     kwargs |-> [player |-> player]]
          /\ plies = 0
          /\ limit = MaxMemoCalls
          /\ search = NoSearch
          /\ caches = [name \in {MaxValueCache, MinValueCache} |->
                         StatisticsCache(Pow2(cache_size))]
          /\ call = NoCall

\* _minimax_min_value(game, alpha, beta, depth=depth) through its wrapper.
CallMinValue ==
    /\ plies < limit
    /\ game.player = MIN
    /\ \E ab \in AlphaBetas, depth \in 0..MaxMemoDepth :
          \E o \in cached_minimax_min_value(caches, game, ab[1], ab[2], depth) :
             /\ caches' = o.cs
             /\ call' = [fn |-> MinValueCache, game |-> game, alpha |-> ab[1],
                         beta |-> ab[2], depth |-> depth, rv |-> o.rv]
    /\ plies' = plies + 1
    /\ UNCHANGED <<config, game, last, limit, search>>

\* _minimax_max_value(game, alpha, beta, depth=depth) through its wrapper.
CallMaxValue ==
    /\ plies < limit
    /\ game.player = MAX
    /\ \E ab \in AlphaBetas, depth \in 0..MaxMemoDepth :
          \E o \in cached_minimax_max_value(caches, game, ab[1], ab[2], depth) :
             /\ caches' = o.cs
             /\ call' = [fn |-> MaxValueCache, game |-> game, alpha |-> ab[1],
                         beta |-> ab[2], depth |-> depth, rv |-> o.rv]
    /\ plies' = plies + 1
    /\ UNCHANGED <<config, game, last, limit, search>>

NextMemo == CallMinValue \/ CallMaxValue

SpecMemo == InitMemo /\ [][NextMemo]_vars

\* ------------------------------------------------------------------------
\* A play in which minimax_decision is asked for a move with the caches of
\* its value functions enabled, every time with the --depth of the process;
\* the caches live as long as the process
\* ------------------------------------------------------------------------

\* The board of the play: --height 2 --width 2.
PruningSize == <<2, 2>>

InitPruning ==
    \E size \in {PruningSize}, terminal_score \in TerminalScores,
       depth \in 0..MaxPruningDepth :
       LET g0 == EmptyGame(size, terminal_score)
           as == actions(g0)
       IN \E k \in 1..Len(as) :
             LET r == invoke(g0, as[k])
             IN /\ config = [size |-> size, terminal_score |-> terminal_score,
                             depth |-> depth]
                /\ game = r.rv
                /\ last = [kind |-> "initialize", before |-> g0, after |-> r.self,
                           kwargs |-> as[k]]
                /\ plies = 1
                /\ limit = MaxPruningPlies
                /\ search = NoSearch
                /\ caches = [name \in {MaxValueCache, MinValueCache} |->
                               StatisticsCache(Pow2(2 * MaxCacheExp + 4))]
                /\ call = NoCall

CachedMinimaxDecision ==
    /\ search = NoSearch
    /\ \E o \in cached_minimax_decision(caches, game, config.depth) :
          /\ caches' = o.cs
          /\ Decided("minimax_decision", config.depth, o)
    /\ UNCHANGED <<config, game, last, plies, limit, call>>

NextPruning == InvokeOk \/ CachedMinimaxDecision

SpecPruning == InitPruning /\ [][NextPruning]_vars

\* ------------------------------------------------------------------------
\* The same play when a KeyboardInterrupt can arrive during a decision: the
\* caches stay as the interrupted call left them and the decision can be
\* asked again
\* ------------------------------------------------------------------------

\* The number of interrupts a play is given.
MaxInterrupts == 1

\* The number of plies of such a play.
MaxInterruptPlies == 2

InitInterrupt ==
    \E size \in {PruningSize}, terminal_score \in TerminalScores,
       depth \in 0..MaxPruningDepth :
       LET g0 == EmptyGame(size, terminal_score)
           as == actions(g0)
       IN \E k \in 1..Len(as) :
             LET r == invoke(g0, as[k])
             IN /\ config = [size |-> size, terminal_score |-> terminal_score,
                             depth |-> depth]
                /\ game = r.rv
                /\ last = [kind |-> "initialize", before |-> g0, after |-> r.self,
                           kwargs |-> as[k]]
                /\ plies = 1
                /\ limit = MaxInterruptPlies
                /\ search = NoSearch
                /\ caches = [name \in {MaxValueCache, MinValueCache} |->
                               StatisticsCache(Pow2(2 * MaxCacheExp + 4))]
                /\ call = [fn |-> "KeyboardInterrupt", n |-> 0]

\* The decision returns an action or raises StopIteration.
DecisionReturns ==
    /\ IF search = NoSearch THEN TRUE ELSE search.raised = "KeyboardInterrupt"
    /\ \E o \in interruptible_minimax_decision(caches, game, config.depth) :
          /\ o.raised # "KeyboardInterrupt"
          /\ caches' = o.cs
          /\ Decided("minimax_decision", config.depth, o)
    /\ UNCHANGED <<config, game, last, plies, limit, call>>

\* The decision is left by a KeyboardInterrupt.
DecisionInterrupted ==
    /\ search = NoSearch
    /\ call.n < MaxInterrupts
    /\ \E o \in interruptible_minimax_decision(caches, game, config.depth) :
          /\ o.raised = "KeyboardInterrupt"
          /\ caches' = o.cs
          /\ Decided("minimax_decision", config.depth, o)
    /\ call' = [call EXCEPT !.n = @ + 1]
    /\ UNCHANGED <<config, game, last, plies, limit>>

\* After an interrupt the play may go on with the next invoke as well.
NextInterrupt == InvokeOk \/ DecisionReturns \/ DecisionInterrupted

SpecInterrupt == InitInterrupt /\ [][NextInterrupt]_vars

\* ------------------------------------------------------------------------
\* The play as the search with depth -1 walks it: from initialize, one legal
\* invoke after another for as long as terminal_test() is false
\* ------------------------------------------------------------------------

\* A number of plies no play can reach before a tile has reached
\* terminal_score: a board whose tiles are all below terminal_score sums to
\* at most cells * terminal_score / 2, and every second ply adds 2.
LongestPlay(size, terminal_score) == (size[1] * size[2] * terminal_score) \div 2 + 1

InitTermination ==
    \E size \in Sizes, terminal_score \in TerminalScores :
       LET g0 == EmptyGame(size, terminal_score)
           as == actions(g0)
       IN \E k \in 1..Len(as) :
             LET r == invoke(g0, as[k])
             IN /\ config = [size |-> size, terminal_score |-> terminal_score]
                /\ game = r.rv
                /\ last = [kind |-> "initialize", before |-> g0, after |-> r.self,
                           kwargs |-> as[k]]
                /\ plies = 1
                /\ limit = LongestPlay(size, terminal_score)
                /\ search = NoSearch
                /\ caches = NoCaches
                /\ call = NoCall

\* A value function called on a state whose terminal_test() is false goes one
\* ply down.
Descend ==
    /\ ~terminal_test(game)
    /\ plies < limit
    /\ plies' = plies + 1

\* The step from a state to a child: the ply down is an invoke of one of the
\* state's actions.
Expand ==
    /\ Descend
    /\ InvokeOk

NextTermination == Expand

\* A walk that can go a ply down does: terminal_test() is false only when
\* actions() is not empty, so Descend is enabled exactly when Expand is.
SpecTermination ==
    InitTermination /\ [][NextTermination]_vars /\ WF_plies(Descend)

\* ------------------------------------------------------------------------
\* Properties
\* ------------------------------------------------------------------------

AllActions(g) == SeqRange(all_actions(g))

IsInsert(kwargs) == kwargs.player = MIN

IsSlide(kwargs) == kwargs.player = MAX

\* The cells of the n-th lane along a direction, written from the geometry:
\* the lane starts at the edge the direction names.
Lane(size, direction, n) ==
    LET height == size[1]
        width == size[2]
    IN CASE direction = "LEFT" -> [l \in 1..width |-> <<n - 1, l - 1>>]
         [] direction = "RIGHT" -> [l \in 1..width |-> <<n - 1, width - l>>]
         [] direction = "UP" -> [l \in 1..height |-> <<l - 1, n - 1>>]
         [] direction = "DOWN" -> [l \in 1..height |-> <<height - l, n - 1>>]

LaneCount(size, direction) ==
    IF direction \in {"LEFT", "RIGHT"} THEN size[1] ELSE size[2]

\* The tiles read along a lane.
Tiles(state, lane) == [l \in 1..Len(lane) |-> state[lane[l]]]

IsTile(v) == v # None

Compacted(tiles) == SelectSeq(tiles, IsTile)

\* Pairs of equal neighbours merge, from the front, each tile at most once.
RECURSIVE MergedOnce(_)
MergedOnce(c) ==
    IF Len(c) < 2 THEN c
    ELSE IF c[1] = c[2] THEN <<2 * c[1]>> \o MergedOnce(SubSeq(c, 3, Len(c)))
    ELSE <<c[1]>> \o MergedOnce(Tail(c))

Padded(c, n) == [l \in 1..n |-> IF l <= Len(c) THEN c[l] ELSE None]

\* C1: in every state reached from initialize by invoke calls the board's
\* keys are exactly the height x width rectangle, and size and terminal_score
\* are those passed to initialize.
C1_BoardConservation ==
    /\ DOMAIN game.state = Rectangle(config.size)
    /\ game.size = config.size
    /\ game.terminal_score = config.terminal_score

C1_Witness ==
    /\ last.kind = "invoke"
    /\ IsSlide(last.kwargs)
    /\ plies >= 4
    /\ config.size[1] # config.size[2]
    /\ game.state # last.before.state

\* C2: actions() is the sub-sequence of all_actions(), in its order, of the
\* actions that pass can_invoke, and all of them belong to the role to move.
IndexIn(seq, x) == CHOOSE k \in 1..Len(seq) : seq[k] = x

C2_ActionsSound ==
    LET all == all_actions(game)
        acts == actions(game)
    IN /\ \A a \in SeqRange(all) : (a \in SeqRange(acts)) <=> can_invoke(game, a)
       /\ SeqRange(acts) \subseteq SeqRange(all)
       /\ \A i, j \in 1..Len(acts) :
             i < j => IndexIn(all, acts[i]) < IndexIn(all, acts[j])
       /\ \A a \in SeqRange(acts) : a.player = game.player

C2_Witness ==
    /\ game.player = MAX
    /\ Len(actions(game)) = 2
    /\ actions(game)[2].direction = "LEFT"

\* C3: invoke raises whenever can_invoke is false (occupied cell, slide
\* without a move, action of the other role), and then the receiver is as it
\* was and the caller holds no new game.
C3_InvalidActionRaises ==
    /\ \A a \in AllActions(game) :
          ~can_invoke(game, a) =>
              LET r == invoke(game, a) IN r.raised /\ r.self = game
    /\ last.kind = "raised" =>
          /\ ~can_invoke(last.before, last.kwargs)
          /\ last.after = last.before
          /\ game = last.before

C3_Witness ==
    /\ last.kind = "raised"
    /\ last.before.player = MAX
    /\ IsSlide(last.kwargs)
    /\ \E a \in AllActions(game) : IsSlide(a) /\ can_invoke(game, a)

\* C4: a successful invoke returns a game of the opposite role and leaves the
\* receiver as it was; from initialize on the roles alternate, the Actor
\* moving after an odd number of invokes.
C4_RolesAlternate ==
    /\ last.kind \in {"initialize", "invoke"} =>
          /\ game.player = 0 - last.before.player
          /\ last.after = last.before
    /\ game.player = (IF plies % 2 = 1 THEN MAX ELSE MIN)

C4_Witness ==
    /\ last.kind = "invoke"
    /\ IsSlide(last.kwargs)
    /\ game.state # last.before.state
    /\ plies = 4

\* C5: after a Slide every lane holds its tiles compacted and merged pairwise
\* from the edge the tiles move to, each tile merging at most once.
C5_MergeOnce ==
    (last.kind = "invoke" /\ IsSlide(last.kwargs)) =>
        LET d == last.kwargs.direction IN
        \A n \in 1..LaneCount(game.size, d) :
           LET lane == Lane(game.size, d, n)
           IN Tiles(game.state, lane) =
                Padded(MergedOnce(Compacted(Tiles(last.before.state, lane))), Len(lane))

C5_Witness ==
    /\ last.kind = "invoke"
    /\ last.kwargs = [player |-> MAX, direction |-> "LEFT"]
    /\ game.size = <<1, 4>>
    /\ Tiles(last.before.state, Lane(game.size, "LEFT", 1)) = <<2, 2, 2, 2>>
    /\ Tiles(game.state, Lane(game.size, "LEFT", 1)) = <<4, 4, None, None>>

\* C6: the score after a legal Slide is at least the score before it.
C6_ScoreMonotonic ==
    (last.kind = "invoke" /\ IsSlide(last.kwargs)) =>
        score(game) >= score(last.before)

C6_Witness ==
    /\ last.kind = "invoke"
    /\ IsSlide(last.kwargs)
    /\ score(game) > score(last.before)

\* C7: utility() is max_utility() when the score has reached terminal_score,
\* min_utility() = -max_utility() when it has not and the Actor has no legal
\* action, and the heuristic only in the remaining states.
IsHeuristic(u) == u.inf = 0 /\ u.m = 0

C7_TerminalSentinels ==
    LET u == utility(game)
        won == score(game) >= game.terminal_score
        stuck == game.player = MAX /\ actions(game) = <<>>
    IN /\ won => u = max_utility(game)
       /\ (~won /\ stuck) => u = min_utility(game)
       /\ Plus(min_utility(game), max_utility(game)) = Zero
       /\ min_utility(game) # max_utility(game)
       /\ IsHeuristic(u) => (~won /\ ~stuck)

C7_Witness ==
    /\ score(game) >= game.terminal_score
    /\ game.player = MAX
    /\ actions(game) = <<>>
    /\ Cardinality(DOMAIN game.state) >= 2

\* C8: at a non-terminal Chance state with remaining depth not zero the
\* chance value is the sum of the max-values of the children, one for every
\* empty cell, divided by their number k >= 1; no division by zero happens.
EmptyCells(g) == {p \in DOMAIN g.state : g.state[p] = None}

ChildAfterInsert(g, p) ==
    Game2048([g.state EXCEPT ![p] = 2], MAX, g.size, g.terminal_score)

RECURSIVE SumOfMaxValues(_, _, _)
SumOfMaxValues(g, cells, depth) ==
    IF cells = {} THEN Zero
    ELSE LET p == CHOOSE q \in cells : TRUE
         IN Plus(_expectimax_max_value(ChildAfterInsert(g, p), depth),
                 SumOfMaxValues(g, cells \ {p}, depth))

Times(a, k) == Value(a.m * k, a.h * k, a.d)

C8_ChanceIsMean ==
    (/\ search.fn = "_expectimax_chance_value"
     /\ ~terminal_test(search.game)
     /\ search.depth # 0) =>
        LET k == Cardinality(EmptyCells(search.game))
        IN /\ k >= 1
           /\ search.value.d # 0
           /\ Times(search.value, k) =
                 SumOfMaxValues(search.game, EmptyCells(search.game), search.depth - 1)

C8_Witness ==
    /\ search.fn = "_expectimax_chance_value"
    /\ ~terminal_test(search.game)
    /\ search.depth = 3
    /\ Cardinality(EmptyCells(search.game)) = 3
    /\ search.value.d = 3
    /\ search.value.m # 0
    /\ search.value.h # 0


\* The calls that go through a wrapper of cached().
IsMemoizedCall == call.fn \notin {"none", "reset_stats"}

\* C10: every call to a memoized function changes the statistics of its own
\* cache by exactly one count: when the key is present the stored value is
\* returned without calling the wrapped function, hit grows by one and miss
\* stays; otherwise the wrapped function is called once, its result is
\* stored under the key, miss grows by one and hit stays.
C10_OneCountPerCall ==
    IsMemoizedCall =>
       IF call.key \in Keys(call.before)
       THEN /\ ~call.called
            /\ [key |-> call.key, value |-> call.rv] \in call.before.data
            /\ call.after.hit = call.before.hit + 1
            /\ call.after.miss = call.before.miss
       ELSE /\ call.called
            /\ [key |-> call.key, value |-> call.rv] \in call.after.data
            /\ call.after.miss = call.before.miss + 1
            /\ call.after.hit = call.before.hit


\* C9: the value a memoized function returns for given arguments is the
\* value the unwrapped function computes for them, whatever was called
\* before and whatever was evicted: two calls with the same cache key have
\* the same uncached result.
C9_CacheTransparent ==
    /\ call.fn = MinValueCache =>
          call.rv = _minimax_min_value(call.game, call.alpha, call.beta, call.depth)
    /\ call.fn = MaxValueCache =>
          call.rv = _minimax_max_value(call.game, call.alpha, call.beta, call.depth)


\* The calls of the two decisions.
IsDecision == search.fn \in {"expectimax_decision", "minimax_decision"}

\* The legal actions of a state, as a set.
LegalActions(g) == {a \in AllActions(g) : can_invoke(g, a)}

\* C11: a decision, expectimax or minimax, at any state and depth raises
\* StopIteration if and only if the state has no legal action; otherwise it
\* returns one action, and that action is a legal action of the state.
C11_ExhaustedIffNoActions ==
    IsDecision =>
       /\ search.raised \in {"", "StopIteration"}
       /\ (search.raised = "StopIteration") <=> (LegalActions(search.game) = {})
       /\ search.raised = "" => search.rv \in LegalActions(search.game)

C11_Witness ==
    /\ IsDecision
    /\ search.raised = "StopIteration"
    /\ search.game.player = MAX
    /\ \E p \in DOMAIN search.game.state : search.game.state[p] # None


\* The calls that choose among valued candidates.
HasCandidates ==
    /\ search.fn \in {"expectimax_decision", "minimax_decision",
                      "_optimize_immediate_utility"}
    /\ search.utilities # <<>>

\* The best value among all candidates: none is better by cmp.
BestValue(utilities, cmp) ==
    CHOOSE v \in {utilities[k][2] : k \in 1..Len(utilities)} :
       \A k \in 1..Len(utilities) : ~Cmp(cmp, utilities[k][2], v)

\* The candidates whose value is within 0.0001 of the best value.
TiedSet(utilities, cmp) ==
    {utilities[k][1] : k \in {l \in 1..Len(utilities) :
        \/ utilities[l][2] = BestValue(utilities, cmp)
        \/ WithinTolerance(utilities[l][2], BestValue(utilities, cmp))}}

\* C12: the actions treated as tied are exactly the candidates whose value
\* is within 0.0001 of the best value among all candidates, whatever their
\* order; when there is exactly one, it is the action returned.
C12_TiesWithinTolerance ==
    HasCandidates =>
       /\ SeqRange(ties_from(search.utilities, 1, NoBest, <<>>, search.cmp).ties)
             = TiedSet(search.utilities, search.cmp)
       /\ Cardinality(TiedSet(search.utilities, search.cmp)) = 1 =>
             search.rv \in TiedSet(search.utilities, search.cmp)


\* The immediate utility of a candidate: utility() of its child state.
ImmediateUtility(g, a) == utility(invoke(g, a).rv)

\* The tied candidates whose child has the best immediate utility.
BestImmediate(g, tied, cmp) ==
    {a \in tied : \A b \in tied :
        ~Cmp(cmp, ImmediateUtility(g, b), ImmediateUtility(g, a))}

\* C13: when two or more candidates tie on the searched value, the action
\* returned is the tied action whose child has the best immediate utility,
\* and among several of those the first in the order of actions().
C13_TieBreakImmediate ==
    (HasCandidates /\ Cardinality(TiedSet(search.utilities, search.cmp)) >= 2) =>
       LET best == BestImmediate(search.game,
                                 TiedSet(search.utilities, search.cmp), search.cmp)
           acts == actions(search.game)
       IN /\ search.rv \in best
          /\ \A a \in best : IndexIn(acts, search.rv) <= IndexIn(acts, a)


\* A decision whose tie is not broken by the immediate utility: two or more
\* candidates tie on the searched value and all of them have the same
\* immediate utility, and the best value is strictly between the bounds.
UnresolvedTie ==
    /\ IsDecision
    /\ search.utilities # <<>>
    /\ LET tied == TiedSet(search.utilities, search.cmp)
           best == BestValue(search.utilities, search.cmp)
       IN /\ Cardinality(tied) >= 2
          /\ BestImmediate(search.game, tied, search.cmp) = tied
          /\ Less(min_utility(search.game), best)
          /\ Less(best, max_utility(search.game))

\* C14: a decision whose tie is still unresolved after the immediate-utility
\* tie-break, with a best value strictly between min_utility() and
\* max_utility(), runs again on the same state with depth + 1: the action it
\* returns comes from values searched deeper than the depth it was called
\* with.
C14_DeepensOnTie ==
    UnresolvedTie => search.searched > search.depth


\* C15: with depth -1 a value function stops only where terminal_test() is
\* true; with a depth d >= 0 the remaining depth decreases by one per pair
\* of plies, one of the Actor and one of Chance, and a value function
\* reached with remaining depth zero returns utility() without going on to
\* any child.
C15_DepthPerPlyPair ==
    search.fn = "calls" =>
       \A c \in search.calls :
          /\ (search.depth = 0 - 1 /\ ~c.expanded) => c.terminal
          /\ (search.depth >= 0 /\ c.depth = 0) => ~c.expanded
          /\ search.depth >= 0 =>
                c.depth \in {search.depth - (c.ply \div 2),
                             search.depth - ((c.ply + 1) \div 2)}

\* C16: a decision asked for a move of Chance, when there is a legal action,
\* searches nothing: no child is valued by a value function.
C16_NoSearchForChance ==
    (IsDecision /\ search.game.player = MIN /\ search.raised = "") =>
       search.utilities = <<>>


\* A cache matches the filters when every filter given is its own value.
MatchesFilters(k, filters) ==
    /\ filters.group \in {NoFilter, CacheMeta[k].group}
    /\ filters.module \in {NoFilter, CacheMeta[k].module}
    /\ filters.name \in {NoFilter, CacheMeta[k].name}

\* C17: reset_stats(filters) sets hit and miss to zero on every registered
\* cache that matches all the filters given (all caches when none is given),
\* leaves the counters of every other cache as they were, and leaves the
\* entries and the size of every cache unchanged.
C17_ResetStatsFiltered ==
    call.fn = "reset_stats" =>
       /\ DOMAIN call.after = DOMAIN call.before
       /\ \A k \in DOMAIN call.before :
             /\ call.after[k].data = call.before[k].data
             /\ call.after[k].maxsize = call.before[k].maxsize
             /\ IF MatchesFilters(k, call.filters)
                THEN call.after[k].hit = 0 /\ call.after[k].miss = 0
                ELSE /\ call.after[k].hit = call.before[k].hit
                     /\ call.after[k].miss = call.before[k].miss

C17_Witness ==
    /\ call.fn = "reset_stats"
    /\ call.filters = [group |-> NoFilter, module |-> "rules",
                       name |-> "all_actions"]
    /\ \A k \in DOMAIN call.before :
          call.before[k].miss > 0 /\ call.before[k].data # {}
    /\ call.after[AllActionsCache].miss = 0
    /\ call.after[RotateCache].miss > 0


Slide(d) == [player |-> MAX, direction |-> d]

\* In some lane along d a tile has an empty cell right next to it on the side
\* d points to, or two tiles that are neighbours in the lane are equal.
CanMove(g, d) ==
    \E n \in 1..LaneCount(g.size, d) :
       LET tiles == Tiles(g.state, Lane(g.size, d, n))
       IN \E l \in 2..Len(tiles) :
             /\ tiles[l] # None
             /\ tiles[l - 1] = None \/ tiles[l - 1] = tiles[l]

\* The board the slide transformation gives: compact, merge, compact.
Slid(g, d) ==
    _eliminate_empty_tiles(g,
        _squash_equal_tiles(g, _eliminate_empty_tiles(g, g.state, d), d), d)

\* C18: in an Actor state a Slide is legal in a direction exactly when some
\* lane along it has a tile with an empty cell next to it on the side the
\* direction points to or two equal neighbouring tiles, and exactly when
\* compacting, merging and compacting along it would change the board.
C18_SlideLegalIffChanges ==
    game.player = MAX =>
       \A d \in Directions :
          /\ can_invoke(game, Slide(d)) <=> CanMove(game, d)
          /\ can_invoke(game, Slide(d)) <=> (Slid(game, d) # game.state)

C18_Witness ==
    /\ game.player = MAX
    /\ game.size = <<2, 2>>
    /\ \A p \in DOMAIN game.state : game.state[p] # None
    /\ can_invoke(game, Slide("LEFT"))
    /\ Slid(game, "LEFT") # game.state
    /\ ~can_invoke(game, Slide("UP"))
    /\ Slid(game, "UP") = game.state


\* C19: in a Chance state an Insert is legal exactly when its cell is empty
\* and no Slide is legal; in an Actor state no Insert is legal; a legal
\* Insert gives a board with 2 at its position and every other cell as it
\* was.
C19_InsertIntoEmpty ==
    /\ \A a \in AllActions(game) :
          IF IsInsert(a)
          THEN can_invoke(game, a) <=>
                  (game.player = MIN /\ game.state[a.position] = None)
          ELSE can_invoke(game, a) => game.player = MAX
    /\ (last.kind = "invoke" /\ IsInsert(last.kwargs)) =>
          /\ last.before.player = MIN
          /\ last.before.state[last.kwargs.position] = None
          /\ game.state[last.kwargs.position] = 2
          /\ \A p \in DOMAIN last.before.state \ {last.kwargs.position} :
                game.state[p] = last.before.state[p]
          /\ DOMAIN game.state = DOMAIN last.before.state

C19_Witness ==
    /\ last.kind = "invoke"
    /\ IsInsert(last.kwargs)
    /\ game.state[last.kwargs.position] = 2
    /\ \E p \in DOMAIN game.state : game.state[p] = 4
    /\ \E p \in DOMAIN game.state : game.state[p] = None
    /\ \E a \in AllActions(last.before) :
          IsInsert(a) /\ ~can_invoke(last.before, a)


\* The tiles of a lane are contiguous from its start: no tile follows an
\* empty cell.
Contiguous(tiles) ==
    \A l \in 1..Len(tiles) :
       tiles[l] = None => \A m \in l..Len(tiles) : tiles[m] = None

\* The board of the scenario: 2x2 with 2 at (0, 0) and at (0, 1).
TwoTwos ==
    [p \in Rectangle(<<2, 2>>) |-> IF p[1] = 0 THEN 2 ELSE None]

\* C20: after a legal Slide the tiles of every lane along its direction lie
\* in that same row or column, contiguous against the edge the direction
\* names (column 0 for Left, the last column for Right, row 0 for Up, the
\* last row for Down) with the empty cells behind them and in the order
\* they had; on the 2x2 board with 2 at (0, 0) and (0, 1), Slide(Left)
\* leaves 4 at (0, 0) and nothing else.
C20_TilesAgainstEdge ==
    (last.kind = "invoke" /\ IsSlide(last.kwargs)) =>
        /\ \A n \in 1..LaneCount(game.size, last.kwargs.direction) :
              LET lane == Lane(game.size, last.kwargs.direction, n)
              IN /\ Contiguous(Tiles(game.state, lane))
                 /\ Compacted(Tiles(game.state, lane)) =
                       MergedOnce(Compacted(Tiles(last.before.state, lane)))
        /\ (last.before.state = TwoTwos /\ last.kwargs.direction = "LEFT") =>
              game.state = [p \in Rectangle(<<2, 2>>) |->
                              IF p = <<0, 0>> THEN 4 ELSE None]

C20_Witness ==
    /\ last.kind = "invoke"
    /\ last.kwargs = Slide("LEFT")
    /\ last.before.state = TwoTwos
    /\ game.state[<<0, 0>>] = 4
    /\ score(game) = 4


\* The children of a state, one per legal action.
Children(g) == {invoke(g, a).rv : a \in SeqRange(actions(g))}

\* The greatest and the least of a non-empty set of values.
Greatest(vs) == CHOOSE v \in vs : \A w \in vs : ~Less(v, w)

Least(vs) == CHOOSE v \in vs : \A w \in vs : ~Less(w, v)

\* Depth-limited minimax without pruning: the Actor takes the greatest value
\* of the children, Chance the least.
RECURSIVE PlainMinimax(_, _)
PlainMinimax(g, depth) ==
    IF terminal_test(g) \/ depth = 0 THEN utility(g)
    ELSE IF g.player = MAX
    THEN Greatest({PlainMinimax(c, depth - 1) : c \in Children(g)})
    ELSE Least({PlainMinimax(c, depth - 1) : c \in Children(g)})

C22_PlayTerminates ==
    /\ [](~terminal_test(game) => plies < limit)
    /\ <>terminal_test(game)

C22_Witness ==
    /\ terminal_test(game)
    /\ score(game) < game.terminal_score
    /\ game.player = MAX
    /\ game.size = <<2, 2>>
    /\ plies >= 9


\* C24: in every state reached from initialize by legal invokes, every
\* non-empty cell holds a power of two that is at least 2, so the exponent
\* int(math.log(tile, 2)) that utility() uses is a positive integer and
\* 2 to that exponent is the tile.
C24_TilesPowersOfTwo ==
    \A p \in DOMAIN game.state :
       game.state[p] # None =>
          /\ game.state[p] >= 2
          /\ Log2(game.state[p]) >= 1
          /\ Pow2(Log2(game.state[p])) = game.state[p]

C24_Witness ==
    /\ last.kind = "invoke"
    /\ IsSlide(last.kwargs)
    /\ \E p, q \in DOMAIN game.state :
          /\ game.state[p] = 4
          /\ game.state[q] = 2
    /\ \A p \in DOMAIN last.before.state : last.before.state[p] \in {None, 2}


\* C25: in every state reached from initialize where Chance is to move, the
\* board has an empty cell, actions() is not empty and holds only Inserts,
\* one for each empty cell.
C25_ChanceNeverExhausted ==
    game.player = MIN =>
       /\ EmptyCells(game) # {}
       /\ Len(actions(game)) >= 1
       /\ {a.position : a \in SeqRange(actions(game))} = EmptyCells(game)
       /\ \A a \in SeqRange(actions(game)) : IsInsert(a)

\* A slide on a full board, legal by a merge, leaves a single empty cell.
C25_Witness ==
    /\ game.player = MIN
    /\ last.kind = "invoke"
    /\ EmptyCells(last.before) = {}
    /\ Cardinality(EmptyCells(game)) = 1


\* The sum of the tiles of a board and their number.
RECURSIVE SumCells(_, _)
SumCells(state, cells) ==
    IF cells = {} THEN 0
    ELSE LET p == CHOOSE q \in cells : TRUE
         IN (IF state[p] = None THEN 0 ELSE state[p]) + SumCells(state, cells \ {p})

TileSum(g) == SumCells(g.state, DOMAIN g.state)

TileCount(g) == Cardinality(DOMAIN g.state \ EmptyCells(g))

\* C26: a legal Slide leaves the sum of the tiles unchanged and does not
\* increase their number; a legal Insert adds 2 to the sum and 1 to the
\* number.
C26_SumAndCount ==
    last.kind = "invoke" =>
       /\ IsSlide(last.kwargs) =>
             /\ TileSum(game) = TileSum(last.before)
             /\ TileCount(game) <= TileCount(last.before)
       /\ IsInsert(last.kwargs) =>
             /\ TileSum(game) = TileSum(last.before) + 2
             /\ TileCount(game) = TileCount(last.before) + 1

\* A slide that merged two pairs at once.
C26_Witness ==
    /\ last.kind = "invoke"
    /\ IsSlide(last.kwargs)
    /\ TileCount(game) = TileCount(last.before) - 2
    /\ TileSum(game) >= 8


\* The arguments a key of the value caches can stand for.
GameOfKey(k) ==
    Game2048(k[1][1][1][1], IF k[1][1][1][2] = HashInt(MIN) THEN MIN ELSE MAX,
             k[1][1][1][3], k[1][1][1][4])

FloatsOfHash(h) ==
    {v \in {h, NegInf, PosInf, Value(0, 0 - 2, 1)} : HashFloat(v) = h}

IntsOfHash(h) == {n \in {h, 0 - 1} : HashInt(n) = h}

\* The entry is what the function of that cache, without its wrapper,
\* returns for the arguments of the key.
EntryComputed(name, e) ==
    \A alpha \in FloatsOfHash(e.key[1][2][1]), beta \in FloatsOfHash(e.key[1][3][1]),
       depth \in IntsOfHash(e.key[2][1][2][1]) :
       \E v \in {IF name = MaxValueCache
                 THEN _minimax_max_value(GameOfKey(e.key), alpha, beta, depth)
                 ELSE _minimax_min_value(GameOfKey(e.key), alpha, beta, depth)} :
          e.value = v

EmptyCaches == [name \in DOMAIN caches |-> StatisticsCache(caches[name].maxsize)]

\* C23: a decision the KeyboardInterrupt leaves returns no action, and
\* every entry of every cache is then the value its function computes for
\* the key; a decision that returns, after an interrupted one or not, gives
\* the utilities and the action it gives with empty caches.
C23_InterruptKeepsCaches ==
    search # NoSearch =>
          /\ search.raised = "KeyboardInterrupt" =>
                /\ search.rv = <<>>
                /\ \A name \in DOMAIN caches :
                      \A e \in caches[name].data : EntryComputed(name, e)
          /\ search.raised = "" =>
                \A o \in cached_minimax_decision(EmptyCaches, search.game, search.depth) :
                   /\ o.utilities = search.utilities
                   /\ o.rv = search.rv

\* The decision was interrupted after the value of its first action was
\* stored and asked again on the same game: it returned, with that value
\* read from the cache and the other one computed.
C23_Witness ==
    /\ search # NoSearch
    /\ search.raised = ""
    /\ call.n = 1
    /\ plies = 1
    /\ search.depth = 1
    /\ Len(search.utilities) = 2
    /\ caches[MinValueCache].hit = 1
    /\ Cardinality(caches[MinValueCache].data) = 2

============================================================================
